---- MODULE Spec2Model ----
(***************************************************************************)
(* Model of the roomah request middleware (src/middleware.ts, two          *)
(* revisions of the same file) and of the server session helper            *)
(* (src/unnamed/part_000, part_001, part_002), and of the client forms     *)
(* that advance the sign-in and onboarding flow (auth-form-login.tsx,      *)
(* cv-onboarding-form.tsx, and AuthFormRegister and FiveQForm in           *)
(* src/unnamed/part_004).                                                  *)
(*                                                                         *)
(* Paths, host names and cookie names are sequences of text chunks whose   *)
(* concatenation is the string; the chunks are cut at the boundaries the   *)
(* code tests (startsWith / includes / ===), so a prefix test on the       *)
(* string is a prefix test on the sequence.                                *)
(***************************************************************************)
EXTENDS Integers, Sequences, FiniteSets, TLC

VARIABLES
  rev,               \* which revision of middleware.ts is deployed (1: lines 6-197, 2: lines 210-382)
  nodeEnv,           \* process.env.NODE_ENV
  pc,                \* position of the middleware invocation
  request,           \* the NextRequest (pathname, search, hostname, cookies)
  requestId,         \* const requestId = crypto.randomUUID()
  csrfToken,         \* const csrfToken = generateCsrfToken()
  rateLimit,         \* result of checkRateLimit for this request
  supabaseResponse,  \* let supabaseResponse = NextResponse.next({ request })
  cookiesToSetSeen,  \* the cookies the auth client handed to setAll during getUser
  getUserResult,     \* how supabase.auth.getUser() ended (returned data/error, or threw)
  user,              \* data.user of supabase.auth.getUser()
  profile,           \* result of the profiles query
  response,          \* what middleware() returned
  paths,             \* isProtectedPath, isAuthPath, isOnboardingPath, isAuthCallback
  authCalls,         \* supabase.auth.getUser() calls issued for this request
  profileCalls,      \* profiles queries issued for this request
  chain,             \* the redirect chain the client is following, and its cookie jar
  onboarding,        \* const hasCompletedOnboarding, once the profile query has returned
  \* --- the server session helper (createClient, getCurrentUser, getCurrentProfile)
  hrev,              \* which revision of the helper (0: part_000, 1: part_001, 2: part_002)
  vercelEnv,         \* process.env.NEXT_PUBLIC_VERCEL_ENV
  hpc,               \* position of the helper call
  hfn,               \* the exported function that was called
  cookieStore,       \* what cookieStore.set has written
  setAllResult,      \* how the last setAll call ended
  authOutcome,       \* how the awaited supabase.auth.getUser() ended
  queryOutcome,      \* how the awaited profiles query ended
  huser,             \* const user = await getCurrentUser() inside getCurrentProfile
  hresult,           \* how the helper call ended: returned value, or exception
  supabaseUrl,       \* process.env.NEXT_PUBLIC_SUPABASE_URL
  serviceRoleKey,    \* process.env.SUPABASE_SERVICE_ROLE_KEY
  adminResult,       \* how createAdminClient() ended: returned client, or exception
  hcookiesToSet,     \* the cookiesToSet the auth client handed to the helper's setAll
  form,              \* the form component mounted in the page
  location,          \* window.location of the page (pathname, search)
  isLoading,         \* const [isLoading, setIsLoading] = useState(false)
  error,             \* const [error, setError] = useState("")
  showModal,         \* FiveQForm: const [showModal, setShowModal] = useState(false)
  negativeCount,     \* FiveQForm: const [negativeCount, setNegativeCount] = useState(0)
  pendingData,       \* FiveQForm: const [pendingData, setPendingData] = useState(null)
  inFlight,          \* the server action a handler is awaiting, with its arguments
  lastResult,        \* how the server action of the latest handler run ended
  href               \* the value assigned to window.location.href, if any

helperVars == <<hrev, vercelEnv, hpc, hfn, cookieStore, setAllResult, authOutcome,
               queryOutcome, huser, hresult, supabaseUrl, serviceRoleKey, adminResult,
               hcookiesToSet>>

formVars == <<form, location, isLoading, error, showModal, negativeCount, pendingData,
             inFlight, lastResult, href>>

mwVars == <<rev, nodeEnv, pc, request, requestId, csrfToken, rateLimit,
            supabaseResponse, cookiesToSetSeen, getUserResult, user, profile, response,
            paths, authCalls, profileCalls, chain, onboarding>>

-----------------------------------------------------------------------------
(* Generic helpers                                                         *)

\* a.startsWith(b) on chunk sequences
StartsWith(a, b) == Len(b) <= Len(a) /\ SubSeq(a, 1, Len(b)) = b

\* hostname.includes(s) for a chunk s
Includes(h, s) == \E i \in 1..Len(h) : h[i] = s

\* { ...a, ...b } : object spread, later keys win
Spread(a, b) == [k \in (DOMAIN a) \cup (DOMAIN b) |-> IF k \in DOMAIN b THEN b[k] ELSE a[k]]

\* map.set(k, v)
Put(f, k, v) == [x \in (DOMAIN f) \cup {k} |-> IF x = k THEN v ELSE f[x]]

Empty == [k \in {} |-> TRUE]

\* Math.ceil(a / b) for b > 0
Ceil(a, b) == -((-a) \div b)

-----------------------------------------------------------------------------
(* Input universes                                                         *)

\* values crypto.randomUUID() and generateCsrfToken() may produce
RequestIds == {"uuid-a", "uuid-b"}
CsrfTokens == {"csrf-a", "csrf-b"}
NoToken == "none"

ROOT == <<"/">>
LOGIN == <<"/login">>
REGISTER == <<"/register">>
BROWSE == <<"/cari-jodoh">>
ONBOARDING_VERIFIKASI == <<"/onboarding", "/verifikasi">>
AUTH_CALLBACK == <<"/auth/callback">>

Pathnames ==
  { ROOT, LOGIN, REGISTER, <<"/login", "/reset">>,
    BROWSE, <<"/cari-jodoh", "/42">>, <<"/dashboard">>, <<"/cv-saya">>,
    <<"/koin-saya">>, <<"/riwayat-taaruf">>,
    <<"/onboarding">>, ONBOARDING_VERIFIKASI,
    AUTH_CALLBACK, <<"/api", "/", "profile">>, <<"/api">> }

\* query strings a request arrives with (only redirectTo is ever read or written)
Searches == { Empty, [redirectTo |-> <<"/dashboard">>] }

Hostnames == { <<"localhost">>, <<"www.", "roomahapp.com">>, <<"roomah.", "netlify.app">> }

SB_TOKEN == <<"sb-", "auth-token">>
SB_VERIFIER == <<"sb-", "auth-token-code-verifier">>
THEME == <<"theme">>
CSRF_COOKIE == <<"csrf-token">>

RequestCookieJars ==
  { Empty,
    [n \in {THEME} |-> "dark"],
    [n \in {SB_TOKEN, THEME} |-> IF n = SB_TOKEN THEN "jwt-old" ELSE "dark"] }

Requests ==
  { [pathname |-> p, search |-> s, hostname |-> h, cookies |-> c] :
      p \in Pathnames, s \in Searches, h \in Hostnames, c \in RequestCookieJars }

\* options the auth client passes to setAll: its defaults, a removal, or none
DefaultCookieOptions == [path |-> "/", sameSite |-> "lax", httpOnly |-> FALSE, maxAge |-> 34560000]
RemovalCookieOptions == [path |-> "/", sameSite |-> "lax", httpOnly |-> FALSE, maxAge |-> 0]

CookiesToSetInputs ==
  { << >>,
    << [name |-> SB_TOKEN, value |-> "jwt-new", options |-> DefaultCookieOptions] >>,
    << [name |-> SB_TOKEN, value |-> "jwt-new", options |-> Empty] >>,
    << [name |-> SB_TOKEN, value |-> "", options |-> RemovalCookieOptions] >>,
    << [name |-> SB_TOKEN, value |-> "jwt-new", options |-> DefaultCookieOptions],
       [name |-> SB_VERIFIER, value |-> "", options |-> RemovalCookieOptions] >> }

NoUser == "null"
Users == {"user-1"}
\* supabase.auth.getUser(): { data: { user }, error: null }, { data: { user: null }, error },
\* or a rejected promise
GetUserOutcomes ==
  { [called |-> TRUE, threw |-> FALSE, user |-> u, error |-> FALSE] : u \in Users } \cup
  { [called |-> TRUE, threw |-> FALSE, user |-> NoUser, error |-> e] : e \in BOOLEAN } \cup
  { [called |-> TRUE, threw |-> TRUE, user |-> NoUser, error |-> TRUE] }
NotCalled == [called |-> FALSE, threw |-> FALSE, user |-> NoUser, error |-> FALSE]

NoRow == [row |-> FALSE, registered_at |-> "null"]
ProfileResults ==
  { [data |-> NoRow, error |-> FALSE],
    [data |-> NoRow, error |-> TRUE],
    [data |-> [row |-> TRUE, registered_at |-> "null"], error |-> FALSE],
    [data |-> [row |-> TRUE, registered_at |-> "2025-01-01"], error |-> FALSE] }
NoProfile == [data |-> NoRow, error |-> FALSE]

-----------------------------------------------------------------------------
(* Responses                                                               *)

NoUrl == [pathname |-> << >>, search |-> Empty]
NoBody == Empty
NoResponse == [kind |-> "none", status |-> 0, headers |-> Empty, cookies |-> Empty,
               url |-> NoUrl, body |-> NoBody]

\* NextResponse.next({ request })
NextResponseNext ==
  [kind |-> "next", status |-> 200, headers |-> Empty, cookies |-> Empty,
   url |-> NoUrl, body |-> NoBody]

\* NextResponse.redirect(url)
NextResponseRedirect(url) ==
  [kind |-> "redirect", status |-> 307, headers |-> Empty, cookies |-> Empty,
   url |-> url, body |-> NoBody]

\* response.headers.set(name, value)
HeadersSet(resp, name, value) == [resp EXCEPT !.headers = Put(@, name, value)]

\* response.cookies.set(name, value, options)
CookiesSet(resp, name, value, options) ==
  [resp EXCEPT !.cookies = Put(@, name, [value |-> value, options |-> options])]

-----------------------------------------------------------------------------
(* Rate limiter (imported from @/lib/api/rate-limit, a fixed window per     *)
(* client: the entry the limiter holds for the client is an input)         *)

RateLimitConfig == [windowMs |-> 60 * 1000, maxRequests |-> 100]

\* instants Date.now() may read while one request is handled
ClockReadings == {1000000, 1000001}

\* what the limiter may hold for the client when the request arrives
RateLimitEntries ==
  { [count |-> c, resetTime |-> t] :
      c \in {0, 98, 99, 100, 101},
      t \in {999999, 1000001, 1001001, 1060000} }

checkRateLimit(entry, now, config) ==
  LET cur == IF now > entry.resetTime
             THEN [count |-> 0, resetTime |-> now + config.windowMs]
             ELSE entry
      count == cur.count + 1
  IN [allowed |-> count <= config.maxRequests,
      remaining |-> IF config.maxRequests - count > 0 THEN config.maxRequests - count ELSE 0,
      resetTime |-> cur.resetTime]

NoRateLimit == [allowed |-> TRUE, remaining |-> -1, resetTime |-> -1]

\* setCsrfTokenCookie(response, token), imported from @/lib/security/csrf
setCsrfTokenCookie(resp, token) == CookiesSet(resp, CSRF_COOKIE, token, Empty)

-----------------------------------------------------------------------------
(* middleware(request): route classification                               *)

protectedPaths ==
  { <<"/cari-jodoh">>, <<"/dashboard">>, <<"/cv-saya">>, <<"/koin-saya">>, <<"/riwayat-taaruf">> }
IsProtectedPath(pathname) == \E path \in protectedPaths : StartsWith(pathname, path)

authPaths == { LOGIN, REGISTER }

\* mutant: the auth list matched by prefix, as the protected list is
IsAuthPathByPrefix(pathname) == \E path \in authPaths : StartsWith(pathname, path)

\* authPaths.includes(pathname)
IsAuthPath(pathname) == pathname \in authPaths

IsOnboardingPath(pathname) == StartsWith(pathname, <<"/onboarding">>)

\* mutant: the callback test compares against the path with a trailing slash
IsAuthCallbackTrailingSlash(pathname) == pathname = <<"/auth/callback", "/">>

IsAuthCallback(pathname) == pathname = AUTH_CALLBACK

IsApiPath(pathname) == StartsWith(pathname, <<"/api", "/">>)

\* the four flags of lines 130-141 / 300-310, before they are computed
NotClassified ==
  [computed |-> FALSE, isProtectedPath |-> FALSE, isAuthPath |-> FALSE,
   isOnboardingPath |-> FALSE, isAuthCallback |-> FALSE]

\* const pathname = request.nextUrl.pathname; const isProtectedPath = ...; ...
Classify(pathname) ==
  [computed |-> TRUE,
   isProtectedPath |-> IsProtectedPath(pathname),
   isAuthPath |-> IsAuthPath(pathname),
   isOnboardingPath |-> IsOnboardingPath(pathname),
   isAuthCallback |-> IsAuthCallback(pathname)]

\* rev 1: hostname.includes('roomahapp.com') || hostname.includes('netlify.app')
\* rev 2: process.env.NODE_ENV === 'production'
isProduction(rv, req, env) ==
  IF rv = 1
  THEN Includes(req.hostname, "roomahapp.com") \/ Includes(req.hostname, "netlify.app")
  ELSE env = "production"

-----------------------------------------------------------------------------
(* middleware(request): the synchronous prefix, up to the getUser await    *)

\* mutant: the limiter's verdict is never acted on
NotAllowedNever(rl) == FALSE

\* if (!allowed)
NotAllowed(rl) == ~rl.allowed

\* mutant: the 429 response without its Retry-After header
TooManyRequestsNoRetryAfter(rl, id, now1, now2) ==
  [kind |-> "body", status |-> 429,
   headers |->
     Put(Put(Put(Put(Put(Empty,
       "Content-Type", "application/json"),
       "X-RateLimit-Limit", 100),
       "X-RateLimit-Remaining", rl.remaining),
       "X-RateLimit-Reset", rl.resetTime),
       "X-Request-ID", id),
   cookies |-> Empty, url |-> NoUrl,
   body |-> [error |-> "Too many requests", retryAfter |-> Ceil(rl.resetTime - now1, 1000)]]

\* new NextResponse(JSON.stringify({...}), { status: 429, headers: {...} });
\* the body is the object the JSON text denotes, header values the numbers
\* whose decimal text the header holds
TooManyRequests(rl, id, now1, now2) ==
  [kind |-> "body", status |-> 429,
   headers |->
     Put(Put(Put(Put(Put(Put(Empty,
       "Content-Type", "application/json"),
       "Retry-After", Ceil(rl.resetTime - now2, 1000)),
       "X-RateLimit-Limit", 100),
       "X-RateLimit-Remaining", rl.remaining),
       "X-RateLimit-Reset", rl.resetTime),
       "X-Request-ID", id),
   cookies |-> Empty, url |-> NoUrl,
   body |-> [error |-> "Too many requests", retryAfter |-> Ceil(rl.resetTime - now1, 1000)]]

\* supabaseResponse.headers.set('X-RateLimit-*', ...)
AddRateLimitHeaders(resp, rl) ==
  HeadersSet(HeadersSet(HeadersSet(resp,
    "X-RateLimit-Limit", 100),
    "X-RateLimit-Remaining", rl.remaining),
    "X-RateLimit-Reset", rl.resetTime)

\* lines 15-59 / 214-258 for a request that is not throttled
InitialResponse(req, id, tok, rl) ==
  LET r0 == HeadersSet(NextResponseNext, "X-Request-ID", id)
      r1 == IF IsApiPath(req.pathname) THEN AddRateLimitHeaders(r0, rl) ELSE r0
  IN IF ~IsApiPath(req.pathname) THEN setCsrfTokenCookie(r1, tok) ELSE r1

-----------------------------------------------------------------------------
(* middleware(request): the cookies.setAll callback given to the client    *)

\* mutant: rev 1 without the seven-day default for maxAge
MiddlewareCookieOptionsNoMaxAgeDefault(rv, options, isProd) ==
  IF rv = 1
  THEN Spread(options,
         [secure |-> isProd, sameSite |-> "lax", path |-> "/", httpOnly |-> TRUE])
  ELSE Spread(options, [secure |-> isProd, sameSite |-> "lax", path |-> "/"])

\* rev 1 lines 72-79, rev 2 lines 275-280
MiddlewareCookieOptions(rv, options, isProd) ==
  IF rv = 1
  THEN Spread(options,
         [secure |-> isProd, sameSite |-> "lax", path |-> "/", httpOnly |-> TRUE,
          maxAge |-> IF "maxAge" \in DOMAIN options /\ options.maxAge # 0
                     THEN options.maxAge
                     ELSE 60 * 60 * 24 * 7])
  ELSE Spread(options, [secure |-> isProd, sameSite |-> "lax", path |-> "/"])

\* cookiesToSet.forEach(({name, value, options}) => supabaseResponse.cookies.set(...))
RECURSIVE SetResponseCookies(_, _, _, _)
SetResponseCookies(resp, cookiesToSet, rv, isProd) ==
  IF cookiesToSet = << >> THEN resp
  ELSE LET c == Head(cookiesToSet)
       IN SetResponseCookies(
            CookiesSet(resp, c.name, c.value, MiddlewareCookieOptions(rv, c.options, isProd)),
            Tail(cookiesToSet), rv, isProd)

\* cookiesToSet.forEach(({name, value}) => request.cookies.set(name, value))
RECURSIVE SetRequestCookies(_, _)
SetRequestCookies(jar, cookiesToSet) ==
  IF cookiesToSet = << >> THEN jar
  ELSE SetRequestCookies(Put(jar, Head(cookiesToSet).name, Head(cookiesToSet).value),
                         Tail(cookiesToSet))

\* setAll(cookiesToSet): rev 1 writes onto the existing supabaseResponse;
\* rev 2 writes the request cookies, replaces supabaseResponse by a fresh
\* NextResponse.next({ request }) and writes onto that
setAll(rv, req, resp, cookiesToSet, isProd) ==
  IF rv = 1
  THEN [request |-> req,
        supabaseResponse |-> SetResponseCookies(resp, cookiesToSet, rv, isProd)]
  ELSE [request |-> [req EXCEPT !.cookies = SetRequestCookies(@, cookiesToSet)],
        supabaseResponse |-> SetResponseCookies(NextResponseNext, cookiesToSet, rv, isProd)]

\* rev 1 lines 107-125: copy the request's sb- cookies onto the response
PropagateSbCookies(req, resp, isProd) ==
  LET sbCookies == { n \in DOMAIN req.cookies : StartsWith(n, <<"sb-">>) }
      fixed == [secure |-> isProd, sameSite |-> "lax", path |-> "/", httpOnly |-> TRUE,
                maxAge |-> 60 * 60 * 24 * 7]
  IN [resp EXCEPT !.cookies =
        [n \in (DOMAIN @) \cup sbCookies |->
           IF n \in sbCookies THEN [value |-> req.cookies[n], options |-> fixed] ELSE @[n]]]

-----------------------------------------------------------------------------
(* middleware(request): routing                                            *)

\* mutant: the login redirect without url.searchParams.set('redirectTo', pathname)
LoginRedirectWithoutParam(req) ==
  NextResponseRedirect([pathname |-> LOGIN, search |-> req.search])

\* url = request.nextUrl.clone(); url.pathname = '/login';
\* url.searchParams.set('redirectTo', pathname); NextResponse.redirect(url)
LoginRedirect(req) ==
  NextResponseRedirect([pathname |-> LOGIN, search |-> Put(req.search, "redirectTo", req.pathname)])

\* url = request.nextUrl.clone(); url.pathname = target; NextResponse.redirect(url)
Redirect(req, target) ==
  NextResponseRedirect([pathname |-> target, search |-> req.search])

\* mutant: the profile is looked up whether or not there is a user
RouteAfterGetUserAlwaysProfile(req, usr, resp) ==
  IF IsAuthCallback(req.pathname) THEN [next |-> "done", response |-> resp]
  ELSE [next |-> "profile", response |-> NoResponse]

\* lines 143-159 / 312-328: what happens once getUser has returned
RouteAfterGetUser(req, usr, resp) ==
  IF IsAuthCallback(req.pathname) THEN [next |-> "done", response |-> resp]
  ELSE IF usr = NoUser
       THEN IF IsProtectedPath(req.pathname)
            THEN [next |-> "done", response |-> LoginRedirect(req)]
            ELSE [next |-> "done", response |-> resp]
       ELSE [next |-> "profile", response |-> NoResponse]

\* hasCompletedOnboarding before the profile query
NotQueried == [computed |-> FALSE, hasCompletedOnboarding |-> FALSE]

\* mutant: profile?.registered_at !== null, which a null profile satisfies
hasCompletedOnboardingOptionalChain(prof) ==
  ~prof.data.row \/ prof.data.registered_at # "null"

\* mutant: onboarding counted as complete as soon as a profile row exists
hasCompletedOnboardingRowOnly(prof) == prof.data.row

\* const hasCompletedOnboarding = profile && profile.registered_at !== null
hasCompletedOnboarding(prof) == prof.data.row /\ prof.data.registered_at # "null"

\* mutant: the two branches of the auth-path redirect exchanged
AuthPathRedirectSwapped(req, completed) ==
  IF completed THEN NextResponseRedirect([pathname |-> ONBOARDING_VERIFIKASI, search |-> req.search])
  ELSE NextResponseRedirect([pathname |-> BROWSE, search |-> req.search])

\* lines 172-182 / 340-352
AuthPathRedirect(req, completed) ==
  IF completed THEN Redirect(req, BROWSE) ELSE Redirect(req, ONBOARDING_VERIFIKASI)

\* mutant: rev 2 allows the onboarding pages to a completed user, as rev 1 does
CompletedOnOnboardingAlwaysAllow(rv, req, resp) == resp

\* lines 192-194 (rev 1: allow) / 362-366 (rev 2: redirect to browse)
CompletedOnOnboarding(rv, req, resp) ==
  IF rv = 1 THEN resp ELSE Redirect(req, BROWSE)

\* mutant: the onboarding branch taken whether or not onboarding is complete
RouteAfterProfileOnboardingUngated(rv, req, prof, resp) ==
  LET completed == hasCompletedOnboarding(prof)
  IN IF IsAuthPath(req.pathname) THEN AuthPathRedirect(req, completed)
     ELSE IF IsProtectedPath(req.pathname) /\ ~completed
          THEN Redirect(req, ONBOARDING_VERIFIKASI)
     ELSE IF IsOnboardingPath(req.pathname)
          THEN CompletedOnOnboarding(rv, req, resp)
     ELSE resp

\* mutant: a protected path is let through without the onboarding test
RouteAfterProfileNoOnboardingGate(rv, req, prof, resp) ==
  LET completed == hasCompletedOnboarding(prof)
  IN IF IsAuthPath(req.pathname) THEN AuthPathRedirect(req, completed)
     ELSE IF IsOnboardingPath(req.pathname) /\ completed
          THEN CompletedOnOnboarding(rv, req, resp)
     ELSE resp

\* lines 168-196 / 337-381: what happens once the profile query has returned
RouteAfterProfile(rv, req, prof, resp) ==
  LET completed == hasCompletedOnboarding(prof)
  IN IF IsAuthPath(req.pathname) THEN AuthPathRedirect(req, completed)
     ELSE IF IsProtectedPath(req.pathname) /\ ~completed
          THEN Redirect(req, ONBOARDING_VERIFIKASI)
     ELSE IF IsOnboardingPath(req.pathname) /\ completed
          THEN CompletedOnOnboarding(rv, req, resp)
     ELSE resp

-----------------------------------------------------------------------------
(* Server session helper: createClient().cookies.setAll                    *)

\* part_000 lines 34-35, part_001 lines 26-27:
\*   NODE_ENV === 'production' || NEXT_PUBLIC_VERCEL_ENV === 'production'
\* part_002 line 27: NODE_ENV === 'production'
helperIsProduction(hr, env, venv) ==
  IF hr = 2 THEN env = "production"
  ELSE env = "production" \/ venv = "production"

\* mutant: the helper forces httpOnly, as revision 1 of the middleware does
HelperCookieOptionsHttpOnly(hr, options, isProd) ==
  IF hr = 2
  THEN Spread(options, [secure |-> isProd, sameSite |-> "lax", path |-> "/", httpOnly |-> TRUE])
  ELSE Spread(options, [secure |-> isProd, httpOnly |-> TRUE])

\* part_000 lines 51-54, part_001 lines 29-32, part_002 lines 25-30
HelperCookieOptions(hr, options, isProd) ==
  IF hr = 2
  THEN Spread(options, [secure |-> isProd, sameSite |-> "lax", path |-> "/"])
  ELSE Spread(options, [secure |-> isProd])

\* cookiesToSet.forEach(... cookieStore.set(name, value, cookieOptions)): the
\* store accepts writes in a Server Action or Route Handler and throws on the
\* first write in a Server Component
RECURSIVE StoreSetEach(_, _, _, _, _)
StoreSetEach(store, cookiesToSet, writable, hr, isProd) ==
  IF cookiesToSet = << >> THEN [store |-> store, threw |-> FALSE]
  ELSE IF ~writable THEN [store |-> store, threw |-> TRUE]
  ELSE LET c == Head(cookiesToSet)
       IN StoreSetEach(
            Put(store, c.name, [value |-> c.value,
                                options |-> HelperCookieOptions(hr, c.options, isProd)]),
            Tail(cookiesToSet), writable, hr, isProd)

\* mutant: setAll without its try/catch
helperSetAllNoCatch(store, cookiesToSet, writable, hr, isProd) ==
  StoreSetEach(store, cookiesToSet, writable, hr, isProd)

\* setAll(cookiesToSet) { try { cookiesToSet.forEach(...) } catch { } }
helperSetAll(store, cookiesToSet, writable, hr, isProd) ==
  [store |-> StoreSetEach(store, cookiesToSet, writable, hr, isProd).store,
   threw |-> FALSE]

-----------------------------------------------------------------------------
(* Server session helper: getCurrentUser, getCurrentProfile                *)

Null == [type |-> "null"]
UserValue(u) == [type |-> "user", id |-> u]
ProfileRow(u) == [type |-> "profile", user_id |-> u]

Returned(v) == [ended |-> "returned", value |-> v]
Threw == [ended |-> "threw", value |-> Null]
Pending == [ended |-> "pending", value |-> Null]

\* how an awaited remote call ends: data, an error result, or a rejection
RemoteGetUserOutcomes ==
  { [threw |-> FALSE, error |-> FALSE, data |-> UserValue(u)] : u \in Users } \cup
  { [threw |-> FALSE, error |-> FALSE, data |-> Null],
    [threw |-> FALSE, error |-> TRUE, data |-> Null],
    [threw |-> TRUE, error |-> FALSE, data |-> Null] }

RemoteProfileOutcomes(u) ==
  { [threw |-> FALSE, error |-> FALSE, data |-> ProfileRow(u)],
    [threw |-> FALSE, error |-> TRUE, data |-> Null],
    [threw |-> TRUE, error |-> FALSE, data |-> Null] }

NoRemote == [threw |-> FALSE, error |-> FALSE, data |-> Null]

\* mutant: getCurrentUser without its try/catch
getCurrentUserNoCatch(outcome) ==
  IF outcome.threw THEN Threw
  ELSE IF outcome.error THEN Returned(Null)
  ELSE Returned(outcome.data)

\* getCurrentUser: try { const { data: { user }, error } = await getUser();
\*   if (error) return null; return user } catch { return null }
getCurrentUser(outcome) ==
  IF outcome.threw THEN Returned(Null)
  ELSE IF outcome.error THEN Returned(Null)
  ELSE Returned(outcome.data)

\* getCurrentProfile after its user is known: try { const { data, error } =
\*   await ...single(); if (error) return null; return data } catch { return null }
getCurrentProfile(outcome) ==
  IF outcome.threw THEN Returned(Null)
  ELSE IF outcome.error THEN Returned(Null)
  ELSE Returned(outcome.data)

-----------------------------------------------------------------------------
(* Server session helper: createAdminClient                                *)

\* an environment variable is undefined, the empty string, or a value
Unset == "<undefined>"
EnvUrls == { Unset, "", "https://roomah.supabase.co" }
EnvKeys == { Unset, "", "service-role-key" }

\* createServerClient(supabaseUrl, serviceRoleKey, { cookies: { getAll: () => [],
\*   setAll: () => {} }, auth: { persistSession: false, autoRefreshToken: false } })
AdminClient(url, key) ==
  [type |-> "client", url |-> url, key |-> key,
   persistSession |-> FALSE, autoRefreshToken |-> FALSE]

\* !x for a string-or-undefined x
Falsy(x) == x = Unset \/ x = ""

\* mutant: only the service-role key is tested
createAdminClientKeyOnly(url, key) ==
  IF Falsy(key) THEN Threw ELSE Returned(AdminClient(url, key))

\* if (!supabaseUrl || !serviceRoleKey) throw new Error(...); return createServerClient(...)
createAdminClient(url, key) ==
  IF Falsy(url) \/ Falsy(key) THEN Threw ELSE Returned(AdminClient(url, key))

-----------------------------------------------------------------------------
(* middleware(request): the state machine of one invocation after another  *)

\* how many redirects in a row the client is followed through
MaxHops == 2

\* no redirect is being followed; jar is the client's cookie jar
NoChain == [hops |-> 0, jar |-> Empty, getUser |-> NotCalled, profile |-> NoProfile]

NoRequest == [pathname |-> << >>, search |-> Empty, hostname |-> << >>, cookies |-> Empty]

InitMiddleware ==
  /\ rev \in {1, 2}
  /\ nodeEnv \in {"production", "development"}
  /\ pc = "idle"
  /\ request = NoRequest
  /\ requestId = NoToken
  /\ csrfToken = NoToken
  /\ rateLimit = NoRateLimit
  /\ supabaseResponse = NoResponse
  /\ cookiesToSetSeen = << >>
  /\ getUserResult = NotCalled
  /\ user = NoUser
  /\ profile = NoProfile
  /\ response = NoResponse
  /\ paths = NotClassified
  /\ authCalls = 0
  /\ profileCalls = 0
  /\ chain = NoChain
  /\ onboarding = NotQueried

InitHelper ==
  /\ hrev \in {0, 1, 2}
  /\ vercelEnv \in {"production", "preview"}
  /\ hpc = "idle"
  /\ hfn = "none"
  /\ cookieStore = Empty
  /\ setAllResult = "not-called"
  /\ authOutcome = NoRemote
  /\ queryOutcome = NoRemote
  /\ huser = Null
  /\ hresult = Pending
  /\ supabaseUrl \in EnvUrls
  /\ serviceRoleKey \in EnvKeys
  /\ adminResult = Pending
  /\ hcookiesToSet = << >>

\* lines 6-97 / 210-291: request id, rate limiting, CSRF cookie, client creation
Arrive(req) ==
  /\ \E id \in RequestIds :
       /\ request' = req
       /\ requestId' = id
       /\ IF IsApiPath(req.pathname)
          THEN \E entry \in RateLimitEntries, now \in ClockReadings,
                  now1 \in ClockReadings, now2 \in ClockReadings :
                 /\ now <= now1 /\ now1 <= now2
                 /\ LET rl == checkRateLimit(entry, now, RateLimitConfig)
                    IN /\ rateLimit' = rl
                       /\ csrfToken' = NoToken
                       /\ IF NotAllowed(rl)
                          THEN /\ response' = TooManyRequests(rl, id, now1, now2)
                               /\ supabaseResponse' = HeadersSet(NextResponseNext, "X-Request-ID", id)
                               /\ pc' = "done"
                          ELSE /\ response' = NoResponse
                               /\ supabaseResponse' = InitialResponse(req, id, NoToken, rl)
                               /\ pc' = "getUser"
          ELSE \E tok \in CsrfTokens :
                 /\ rateLimit' = NoRateLimit
                 /\ csrfToken' = tok
                 /\ response' = NoResponse
                 /\ supabaseResponse' = InitialResponse(req, id, tok, NoRateLimit)
                 /\ pc' = "getUser"
  /\ cookiesToSetSeen' = << >>
  /\ getUserResult' = NotCalled
  /\ user' = NoUser
  /\ profile' = NoProfile
  /\ paths' = NotClassified
  /\ authCalls' = 0
  /\ profileCalls' = 0
  /\ onboarding' = NotQueried
  /\ UNCHANGED <<rev, nodeEnv>>
  /\ UNCHANGED helperVars
  /\ UNCHANGED formVars

\* a request arrives from a client, with the cookies the client holds
Begin ==
  /\ pc = "idle"
  /\ \E req \in Requests :
       /\ Arrive(req)
       /\ chain' = [NoChain EXCEPT !.jar = req.cookies]

\* the client follows a redirect: it asks for the Location it was given, on
\* the same host, with its cookie jar and whatever the redirect response set;
\* the session and the profile are what they were for the request before
FollowRedirect ==
  /\ pc = "done"
  /\ response.kind = "redirect"
  /\ chain.hops < MaxHops
  /\ LET jar == [n \in DOMAIN chain.jar \cup DOMAIN response.cookies |->
                   IF n \in DOMAIN response.cookies THEN response.cookies[n].value
                   ELSE chain.jar[n]]
     IN /\ Arrive([pathname |-> response.url.pathname, search |-> response.url.search,
                   hostname |-> request.hostname, cookies |-> jar])
        /\ chain' = [hops |-> chain.hops + 1, jar |-> jar,
                     getUser |-> getUserResult, profile |-> profile]

\* lines 98-159 / 292-328: await supabase.auth.getUser(), during which the
\* client may call setAll; then the cookie propagation of rev 1 and the
\* routing that needs no profile
GetUser ==
  /\ pc = "getUser"
  /\ \E outcome \in (IF chain.hops > 0 THEN {chain.getUser} ELSE GetUserOutcomes),
        cookiesToSet \in CookiesToSetInputs :
       LET isProd == isProduction(rev, request, nodeEnv)
           after == IF cookiesToSet = << >>
                    THEN [request |-> request, supabaseResponse |-> supabaseResponse]
                    ELSE setAll(rev, request, supabaseResponse, cookiesToSet, isProd)
           resp == IF rev = 1
                   THEN PropagateSbCookies(after.request, after.supabaseResponse, isProd)
                   ELSE after.supabaseResponse
           route == RouteAfterGetUser(after.request, outcome.user, resp)
       IN /\ cookiesToSetSeen' = cookiesToSet
          /\ getUserResult' = outcome
          /\ request' = after.request
          /\ authCalls' = authCalls + 1
          /\ IF outcome.threw
             THEN /\ supabaseResponse' = after.supabaseResponse
                  /\ user' = NoUser
                  /\ paths' = paths
                  /\ response' = NoResponse
                  /\ pc' = "threw"
             ELSE /\ supabaseResponse' = resp
                  /\ user' = outcome.user
                  /\ paths' = Classify(after.request.pathname)
                  /\ response' = route.response
                  /\ pc' = route.next
  /\ UNCHANGED <<rev, nodeEnv, requestId, csrfToken, rateLimit, profile, profileCalls, chain,
                 onboarding>>
  /\ UNCHANGED helperVars
  /\ UNCHANGED formVars

\* lines 161-197 / 330-382: await the profiles query, then the rest of the routing
ProfileQuery ==
  /\ pc = "profile"
  /\ \E result \in (IF chain.hops > 0 THEN {chain.profile} ELSE ProfileResults) :
       /\ profile' = result
       /\ response' = RouteAfterProfile(rev, request, result, supabaseResponse)
  /\ profileCalls' = profileCalls + 1
  /\ onboarding' = [computed |-> TRUE, hasCompletedOnboarding |-> hasCompletedOnboarding(profile')]
  /\ pc' = "done"
  /\ UNCHANGED <<rev, nodeEnv, request, requestId, csrfToken, rateLimit,
                 supabaseResponse, cookiesToSetSeen, getUserResult, user, paths, authCalls,
                 chain>>
  /\ UNCHANGED helperVars
  /\ UNCHANGED formVars

\* the invocation is over (response returned, or exception propagated to the
\* framework); the next request can arrive
Finish ==
  /\ pc \in {"done", "threw"}
  /\ pc' = "idle"
  /\ request' = NoRequest
  /\ requestId' = NoToken
  /\ csrfToken' = NoToken
  /\ rateLimit' = NoRateLimit
  /\ supabaseResponse' = NoResponse
  /\ cookiesToSetSeen' = << >>
  /\ getUserResult' = NotCalled
  /\ user' = NoUser
  /\ profile' = NoProfile
  /\ response' = NoResponse
  /\ paths' = NotClassified
  /\ authCalls' = 0
  /\ profileCalls' = 0
  /\ chain' = NoChain
  /\ onboarding' = NotQueried
  /\ UNCHANGED <<rev, nodeEnv>>
  /\ UNCHANGED helperVars
  /\ UNCHANGED formVars

-----------------------------------------------------------------------------
(* Server session helper: the state machine of one call after another      *)

\* a Server Component, Server Action or Route Handler calls an export
HelperCall ==
  /\ hpc = "idle"
  /\ hfn' \in {"getCurrentUser", "getCurrentProfile"}
  /\ hpc' = "getUser"
  /\ UNCHANGED <<hrev, vercelEnv, cookieStore, setAllResult, authOutcome, queryOutcome,
                 huser, hresult, supabaseUrl, serviceRoleKey, adminResult, hcookiesToSet>>
  /\ UNCHANGED mwVars
  /\ UNCHANGED formVars

\* createAdminClient() is synchronous: it reads the environment and returns or throws
HelperCreateAdminClient ==
  /\ hpc = "idle"
  /\ hfn' = "createAdminClient"
  /\ adminResult' = createAdminClient(supabaseUrl, serviceRoleKey)
  /\ hpc' = "done"
  /\ UNCHANGED <<hrev, vercelEnv, cookieStore, setAllResult, authOutcome, queryOutcome,
                 huser, hresult, supabaseUrl, serviceRoleKey, hcookiesToSet>>
  /\ UNCHANGED mwVars
  /\ UNCHANGED formVars

\* await supabase.auth.getUser() inside getCurrentUser; the client may call
\* setAll meanwhile, and a setAll that throws makes the call reject
HelperGetUser ==
  /\ hpc = "getUser"
  /\ \E outcome \in RemoteGetUserOutcomes, cookiesToSet \in CookiesToSetInputs,
        writable \in BOOLEAN :
       LET sa == IF cookiesToSet = << >>
                 THEN [store |-> cookieStore, threw |-> FALSE]
                 ELSE helperSetAll(cookieStore, cookiesToSet, writable, hrev,
                                   helperIsProduction(hrev, nodeEnv, vercelEnv))
           seen == IF sa.threw THEN [threw |-> TRUE, error |-> FALSE, data |-> Null]
                   ELSE outcome
           res == getCurrentUser(seen)
       IN /\ cookieStore' = sa.store
          /\ hcookiesToSet' = cookiesToSet
          /\ setAllResult' = IF cookiesToSet = << >> THEN "not-called"
                             ELSE IF sa.threw THEN "threw"
                             ELSE IF writable THEN "returned" ELSE "swallowed"
          /\ authOutcome' = outcome
          /\ IF hfn = "getCurrentProfile" /\ res.ended = "returned" /\ res.value # Null
             THEN /\ hpc' = "profile"
                  /\ huser' = res.value
                  /\ hresult' = Pending
             ELSE /\ hpc' = "done"
                  /\ huser' = Null
                  /\ hresult' = res
  /\ UNCHANGED <<hrev, vercelEnv, hfn, queryOutcome, supabaseUrl, serviceRoleKey, adminResult>>
  /\ UNCHANGED mwVars
  /\ UNCHANGED formVars

\* await supabase.from('profiles').select('*').eq('user_id', user.id).single()
HelperProfileQuery ==
  /\ hpc = "profile"
  /\ \E outcome \in RemoteProfileOutcomes(huser.id) :
       /\ queryOutcome' = outcome
       /\ hresult' = getCurrentProfile(outcome)
  /\ hpc' = "done"
  /\ UNCHANGED <<hrev, vercelEnv, hfn, cookieStore, setAllResult, authOutcome, huser,
                 supabaseUrl, serviceRoleKey, adminResult, hcookiesToSet>>
  /\ UNCHANGED mwVars
  /\ UNCHANGED formVars

HelperFinish ==
  /\ hpc = "done"
  /\ hpc' = "idle"
  /\ hfn' = "none"
  /\ cookieStore' = Empty
  /\ setAllResult' = "not-called"
  /\ authOutcome' = NoRemote
  /\ queryOutcome' = NoRemote
  /\ huser' = Null
  /\ hresult' = Pending
  /\ adminResult' = Pending
  /\ hcookiesToSet' = << >>
  /\ UNCHANGED <<hrev, vercelEnv, supabaseUrl, serviceRoleKey>>
  /\ UNCHANGED mwVars
  /\ UNCHANGED formVars

-----------------------------------------------------------------------------
(* Client forms: shared state                                              *)

Forms == {"login", "register", "fiveq", "cv"}

\* window.location.href has not been assigned
NoNav == << >>
HOME == <<"/">>
ONBOARDING_CV == <<"/onboarding", "/cv">>
ONBOARDING_SELESAI == <<"/onboarding", "/selesai">>
GOOGLE_OAUTH_URL == <<"https://accounts.google.com/o/oauth2/v2/auth">>

\* a || b for strings: undefined and "" both give b
OrElse(a, b) == IF a = "" THEN b ELSE a

\* no server action awaited; no server action has ended
NoCall == [action |-> "none", handler |-> "none", payload |-> Null]
NoResult == [kind |-> "none", success |-> FALSE, error |-> "", url |-> NoNav, status |-> ""]

Call(action, handler, payload) == [action |-> action, handler |-> handler, payload |-> payload]

\* how a server action ends: { success: true, ... }, { success: false, error? },
\* or a rejected promise whose reason may carry a message
Succeeded == [kind |-> "returned", success |-> TRUE, error |-> "", url |-> NoNav, status |-> ""]
Failures ==
  { [kind |-> "returned", success |-> FALSE, error |-> e, url |-> NoNav, status |-> ""] :
      e \in {"", "Invalid login credentials"} }
Rejections ==
  { [kind |-> "threw", success |-> FALSE, error |-> e, url |-> NoNav, status |-> ""] :
      e \in {"", "fetch failed"} }

ActionResults(action) ==
  IF action = "startGoogleOAuth"
  THEN { [Succeeded EXCEPT !.url = u] : u \in {GOOGLE_OAUTH_URL, NoNav} }
         \cup Failures \cup Rejections
  ELSE IF action = "signUp"
  THEN { [Succeeded EXCEPT !.status = st] : st \in {"signed_in", "needs_verification"} }
         \cup Failures \cup Rejections
  ELSE {Succeeded} \cup Failures \cup Rejections

\* the URLs the login page is opened with: typed, linked with ?next=, or the
\* target of the middleware's redirect of an unauthenticated request
LoginLocations ==
  { [pathname |-> LOGIN, search |-> q] : q \in {Empty, [next |-> <<"/dashboard">>]} }
    \cup { LoginRedirect(req).url : req \in { r \in Requests : IsProtectedPath(r.pathname) } }

Locations(f) ==
  IF f = "login" THEN LoginLocations
  ELSE IF f = "register" THEN { [pathname |-> REGISTER, search |-> Empty] }
  ELSE IF f = "fiveq" THEN { [pathname |-> ONBOARDING_VERIFIKASI, search |-> Empty] }
  ELSE { [pathname |-> ONBOARDING_CV, search |-> Empty] }

\* the state of a freshly mounted form
InitForms ==
  /\ form \in Forms
  /\ location \in Locations(form)
  /\ isLoading = FALSE
  /\ error = ""
  /\ showModal = FALSE
  /\ negativeCount = 0
  /\ pendingData = Null
  /\ inFlight = NoCall
  /\ lastResult = NoResult
  /\ href = NoNav

\* the buttons are disabled={isLoading}; once window.location.href has been
\* assigned the page is being left
Interactive == ~isLoading /\ href = NoNav

\* a handler starts awaiting a server action
Await(action, handler, payload) ==
  /\ inFlight' = Call(action, handler, payload)
  /\ lastResult' = NoResult

\* the awaited server action ended with res and the handler ran to its end
Settle(res, after) ==
  /\ lastResult' = res
  /\ inFlight' = NoCall
  /\ isLoading' = after.isLoading
  /\ error' = after.error
  /\ href' = after.href

-----------------------------------------------------------------------------
(* AuthFormLogin (auth-form-login.tsx)                                     *)

\* new URLSearchParams(window.location.search).get("next") || "/cari-jodoh"
loginNext(search) ==
  IF "next" \in DOMAIN search /\ search.next # << >> THEN search.next ELSE BROWSE

\* mutant: the page is left whatever signIn returned
loginOnSubmitSettledAlwaysNavigates(res, search, cur) ==
  IF res.kind = "threw"
  THEN [isLoading |-> FALSE, href |-> NoNav,
        error |-> OrElse(res.error, "Terjadi kesalahan. Silakan coba lagi.")]
  ELSE [isLoading |-> FALSE, href |-> loginNext(search), error |-> cur]

\* onSubmit from the return of signIn on: lines 42-56
loginOnSubmitSettled(res, search, cur) ==
  IF res.kind = "threw"
  THEN [isLoading |-> FALSE, href |-> NoNav,
        error |-> OrElse(res.error, "Terjadi kesalahan. Silakan coba lagi.")]
  ELSE IF res.success
  THEN [isLoading |-> FALSE, href |-> loginNext(search), error |-> cur]
  ELSE [isLoading |-> FALSE, href |-> NoNav,
        error |-> OrElse(res.error, "Gagal login. Periksa email dan password Anda.")]

\* handleGoogleSignIn (lines 64-74) and AuthFormRegister.handleGoogleSignUp
\* (part_004 lines 77-87) from the return of startGoogleOAuth on
handleGoogleSettled(res, cur) ==
  IF res.kind = "threw"
  THEN [isLoading |-> FALSE, href |-> NoNav,
        error |-> OrElse(res.error, "Terjadi kesalahan. Silakan coba lagi.")]
  ELSE IF res.success /\ res.url # NoNav
  THEN [isLoading |-> TRUE, href |-> res.url, error |-> cur]
  ELSE [isLoading |-> FALSE, href |-> NoNav,
        error |-> OrElse(res.error, "Gagal memulai Google OAuth")]

\* onSubmit up to `await signIn(data.email, data.password)`
LoginSubmit ==
  /\ form = "login" /\ Interactive
  /\ isLoading' = TRUE
  /\ error' = ""
  /\ Await("signIn", "onSubmit", Null)
  /\ UNCHANGED <<form, location, showModal, negativeCount, pendingData, href>>
  /\ UNCHANGED <<mwVars, helperVars>>

LoginSubmitSettled ==
  /\ form = "login" /\ inFlight.action = "signIn"
  /\ \E res \in ActionResults("signIn") :
       Settle(res, loginOnSubmitSettled(res, location.search, error))
  /\ UNCHANGED <<form, location, showModal, negativeCount, pendingData>>
  /\ UNCHANGED <<mwVars, helperVars>>

\* handleGoogleSignIn / handleGoogleSignUp up to `await startGoogleOAuth(...)`
HandleGoogle ==
  /\ form \in {"login", "register"} /\ Interactive
  /\ isLoading' = TRUE
  /\ error' = ""
  /\ Await("startGoogleOAuth", IF form = "login" THEN "handleGoogleSignIn"
                                ELSE "handleGoogleSignUp", Null)
  /\ UNCHANGED <<form, location, showModal, negativeCount, pendingData, href>>
  /\ UNCHANGED <<mwVars, helperVars>>

HandleGoogleSettled ==
  /\ inFlight.action = "startGoogleOAuth"
  /\ \E res \in ActionResults("startGoogleOAuth") :
       Settle(res, handleGoogleSettled(res, error))
  /\ UNCHANGED <<form, location, showModal, negativeCount, pendingData>>
  /\ UNCHANGED <<mwVars, helperVars>>

-----------------------------------------------------------------------------
(* AuthFormRegister (part_004 lines 15-252)                                *)

\* onSubmit from the return of signUp on: lines 52-69
registerOnSubmitSettled(res, cur) ==
  IF res.kind = "threw"
  THEN [isLoading |-> FALSE, href |-> NoNav,
        error |-> "Terjadi kesalahan. Silakan coba lagi."]
  ELSE IF res.success
  THEN IF res.status = "signed_in"
       THEN [isLoading |-> FALSE, href |-> ONBOARDING_VERIFIKASI, error |-> cur]
       ELSE [isLoading |-> FALSE, href |-> NoNav, error |-> ""]
  ELSE [isLoading |-> FALSE, href |-> NoNav,
        error |-> OrElse(res.error, "Terjadi kesalahan saat mendaftar")]

\* onSubmit up to `await signUp({...})`
RegisterSubmit ==
  /\ form = "register" /\ Interactive
  /\ isLoading' = TRUE
  /\ error' = ""
  /\ Await("signUp", "onSubmit", Null)
  /\ UNCHANGED <<form, location, showModal, negativeCount, pendingData, href>>
  /\ UNCHANGED <<mwVars, helperVars>>

RegisterSubmitSettled ==
  /\ form = "register" /\ inFlight.action = "signUp"
  /\ \E res \in ActionResults("signUp") :
       Settle(res, registerOnSubmitSettled(res, error))
  /\ UNCHANGED <<form, location, showModal, negativeCount, pendingData>>
  /\ UNCHANGED <<mwVars, helperVars>>

-----------------------------------------------------------------------------
(* FiveQForm (part_004 lines 272-473)                                      *)

Questions == {"q1", "q2", "q3", "q4", "q5"}

\* the form values: a radio input sends "true" or "false" as a string
RawAnswers == [Questions -> {"true", "false"}]

\* const toBool = (v) => v === true || v === "true"
toBool(v) == v = "true"

\* Object.values(data).filter((v) => !toBool(v)).length
countNegativeAnswers(data) == Cardinality({ q \in DOMAIN data : ~toBool(data[q]) })

\* const payload = { q1: toBool(raw.q1), ..., q5: toBool(raw.q5) }
Payload(raw) == [q \in Questions |-> toBool(raw[q])]

\* mutant: one negative answer is let through without the modal
needsConfirmationOverOne(negatives) == negatives > 1

\* if (negatives > 0)
needsConfirmation(negatives) == negatives > 0

\* the modal is a dialog over the form: while it is open the form below it
\* takes no input
ModalClosed == ~showModal

\* onSubmit from the return of saveVerification(payload) on: lines 324-337
fiveqOnSubmitSettled(res, cur) ==
  IF res.kind = "returned" /\ res.success
  THEN [isLoading |-> FALSE, href |-> ONBOARDING_CV, error |-> cur]
  ELSE [isLoading |-> FALSE, href |-> NoNav, error |-> cur]

\* mutant: the early returns of handleModalContinue without setIsLoading(false)
handleModalContinueSettledKeepsLoading(res, cur, pending) ==
  IF res.kind = "returned" /\ res.success
  THEN [isLoading |-> TRUE, href |-> ONBOARDING_CV, error |-> cur, pendingData |-> Null]
  ELSE [isLoading |-> TRUE, href |-> NoNav, error |-> cur, pendingData |-> pending]

\* handleModalContinue from the return of saveVerification on: lines 362-378
handleModalContinueSettled(res, cur, pending) ==
  IF res.kind = "returned" /\ res.success
  THEN [isLoading |-> TRUE, href |-> ONBOARDING_CV, error |-> cur, pendingData |-> Null]
  ELSE [isLoading |-> FALSE, href |-> NoNav, error |-> cur, pendingData |-> pending]

\* onSubmit up to `await saveVerification(payload)`, or to the return that
\* opens the modal: lines 298-322
FiveQSubmit ==
  /\ form = "fiveq" /\ Interactive /\ ModalClosed
  /\ \E raw \in RawAnswers :
       LET negatives == countNegativeAnswers(raw)
       IN /\ negativeCount' = negatives
          /\ IF needsConfirmation(negatives)
             THEN /\ pendingData' = Payload(raw)
                  /\ showModal' = TRUE
                  /\ isLoading' = FALSE
                  /\ inFlight' = NoCall
                  /\ lastResult' = NoResult
             ELSE /\ isLoading' = TRUE
                  /\ Await("saveVerification", "onSubmit", Payload(raw))
                  /\ UNCHANGED <<pendingData, showModal>>
  /\ UNCHANGED <<form, location, error, href>>
  /\ UNCHANGED <<mwVars, helperVars>>

FiveQSubmitSettled ==
  /\ form = "fiveq" /\ inFlight.action = "saveVerification" /\ inFlight.handler = "onSubmit"
  /\ \E res \in ActionResults("saveVerification") :
       Settle(res, fiveqOnSubmitSettled(res, error))
  /\ UNCHANGED <<form, location, showModal, negativeCount, pendingData>>
  /\ UNCHANGED <<mwVars, helperVars>>

\* handleModalContinue up to `await saveVerification({...pendingData, committed: true})`,
\* or to the return taken when there is no pending data: lines 346-360
HandleModalContinue ==
  /\ form = "fiveq" /\ showModal /\ href = NoNav
  /\ showModal' = FALSE
  /\ isLoading' = TRUE
  /\ IF pendingData = Null
     THEN inFlight' = NoCall /\ lastResult' = NoResult
     ELSE Await("saveVerification", "handleModalContinue",
                Spread(pendingData, [committed |-> TRUE]))
  /\ UNCHANGED <<form, location, error, negativeCount, pendingData, href>>
  /\ UNCHANGED <<mwVars, helperVars>>

HandleModalContinueSettled ==
  /\ form = "fiveq" /\ inFlight.action = "saveVerification"
  /\ inFlight.handler = "handleModalContinue"
  /\ \E res \in ActionResults("saveVerification") :
       LET after == handleModalContinueSettled(res, error, pendingData)
       IN Settle(res, after) /\ pendingData' = after.pendingData
  /\ UNCHANGED <<form, location, showModal, negativeCount>>
  /\ UNCHANGED <<mwVars, helperVars>>

\* handleModalCancel: lines 381-387
HandleModalCancel ==
  /\ form = "fiveq" /\ showModal /\ href = NoNav
  /\ showModal' = FALSE
  /\ pendingData' = Null
  /\ isLoading' = FALSE
  /\ href' = HOME
  /\ lastResult' = NoResult
  /\ UNCHANGED <<form, location, error, negativeCount, inFlight>>
  /\ UNCHANGED <<mwVars, helperVars>>

-----------------------------------------------------------------------------
(* CvOnboardingForm (cv-onboarding-form.tsx)                               *)

\* onSubmit from the return of submitOnboardingCvWajib on: lines 55-67
cvOnSubmitSettled(res, cur) ==
  IF res.kind = "returned" /\ res.success
  THEN [isLoading |-> FALSE, href |-> ONBOARDING_SELESAI, error |-> cur]
  ELSE [isLoading |-> FALSE, href |-> NoNav, error |-> cur]

\* handleSkip from the return of skipOnboardingCv on: lines 76-85; a
\* rejection is not caught, and the finally block still runs
handleSkipSettled(res, cur) ==
  IF res.kind = "returned" /\ res.success
  THEN [isLoading |-> FALSE, href |-> ONBOARDING_SELESAI, error |-> cur]
  ELSE [isLoading |-> FALSE, href |-> NoNav, error |-> cur]

\* onSubmit / handleSkip up to their await
CvSubmit ==
  /\ form = "cv" /\ Interactive
  /\ isLoading' = TRUE
  /\ Await("submitOnboardingCvWajib", "onSubmit", Null)
  /\ UNCHANGED <<form, location, error, showModal, negativeCount, pendingData, href>>
  /\ UNCHANGED <<mwVars, helperVars>>

CvSubmitSettled ==
  /\ form = "cv" /\ inFlight.action = "submitOnboardingCvWajib"
  /\ \E res \in ActionResults("submitOnboardingCvWajib") :
       Settle(res, cvOnSubmitSettled(res, error))
  /\ UNCHANGED <<form, location, showModal, negativeCount, pendingData>>
  /\ UNCHANGED <<mwVars, helperVars>>

HandleSkip ==
  /\ form = "cv" /\ Interactive
  /\ isLoading' = TRUE
  /\ Await("skipOnboardingCv", "handleSkip", Null)
  /\ UNCHANGED <<form, location, error, showModal, negativeCount, pendingData, href>>
  /\ UNCHANGED <<mwVars, helperVars>>

HandleSkipSettled ==
  /\ form = "cv" /\ inFlight.action = "skipOnboardingCv"
  /\ \E res \in ActionResults("skipOnboardingCv") :
       Settle(res, handleSkipSettled(res, error))
  /\ UNCHANGED <<form, location, showModal, negativeCount, pendingData>>
  /\ UNCHANGED <<mwVars, helperVars>>

\* the page assigned to window.location.href has replaced this one; the form
\* is mounted afresh when its page is opened again
Remount ==
  /\ href # NoNav /\ inFlight = NoCall
  /\ isLoading' = FALSE
  /\ error' = ""
  /\ showModal' = FALSE
  /\ negativeCount' = 0
  /\ pendingData' = Null
  /\ lastResult' = NoResult
  /\ href' = NoNav
  /\ UNCHANGED <<form, location, inFlight>>
  /\ UNCHANGED <<mwVars, helperVars>>

-----------------------------------------------------------------------------
(* Specifications                                                          *)

vars == <<mwVars, helperVars, formVars>>

\* the form state the middleware and helper specifications leave alone
IdleForm == InitForms /\ form = "login" /\ location = [pathname |-> LOGIN, search |-> Empty]

\* the middleware, in either revision, handling one request after another
Init ==
  /\ InitMiddleware /\ InitHelper /\ hrev = 1 /\ vercelEnv = "preview"
  /\ supabaseUrl = "https://roomah.supabase.co" /\ serviceRoleKey = Unset
  /\ IdleForm
Next == Begin \/ GetUser \/ ProfileQuery \/ FollowRedirect \/ Finish
Spec == Init /\ [][Next]_vars

\* the session helper, in each revision, serving one call after another
HelperInit == InitMiddleware /\ InitHelper /\ rev = 2 /\ IdleForm
HelperNext ==
  \/ HelperCall \/ HelperGetUser \/ HelperProfileQuery \/ HelperCreateAdminClient
  \/ HelperFinish
HelperSpec == HelperInit /\ [][HelperNext]_vars

\* the four forms, each used again and again
FormInit ==
  /\ InitMiddleware /\ rev = 2 /\ nodeEnv = "production"
  /\ InitHelper /\ hrev = 1 /\ vercelEnv = "preview"
  /\ supabaseUrl = "https://roomah.supabase.co" /\ serviceRoleKey = Unset
  /\ InitForms
FormNext ==
  \/ LoginSubmit \/ LoginSubmitSettled \/ HandleGoogle \/ HandleGoogleSettled
  \/ RegisterSubmit \/ RegisterSubmitSettled
  \/ FiveQSubmit \/ FiveQSubmitSettled
  \/ HandleModalContinue \/ HandleModalContinueSettled \/ HandleModalCancel
  \/ CvSubmit \/ CvSubmitSettled \/ HandleSkip \/ HandleSkipSettled
  \/ Remount
FormSpec == FormInit /\ [][FormNext]_vars

-----------------------------------------------------------------------------
(* Properties                                                              *)

\* the prefixes and paths as the properties name them
ClaimProtectedPrefixes ==
  { <<"/cari-jodoh">>, <<"/dashboard">>, <<"/cv-saya">>, <<"/koin-saya">>, <<"/riwayat-taaruf">> }
OnProtectedPath == \E prefix \in ClaimProtectedPrefixes : StartsWith(request.pathname, prefix)
OnApiPath == StartsWith(request.pathname, <<"/api", "/">>)
GetUserReturned == getUserResult.called /\ ~getUserResult.threw
OnboardingComplete == profile.data.row /\ profile.data.registered_at # "null"

\* C1: in both revisions, once auth verification has returned no user for a
\* request on a protected prefix, the middleware returns a redirect to /login
\* whose redirectTo parameter is the request's pathname.
C1_UnauthenticatedProtectedRedirectsToLogin ==
  (GetUserReturned /\ user = NoUser /\ OnProtectedPath)
    => /\ pc = "done"
       /\ response.kind = "redirect"
       /\ response.url.pathname = LOGIN
       /\ "redirectTo" \in DOMAIN response.url.search
       /\ response.url.search["redirectTo"] = request.pathname

\* a protected sub-path that arrived with another redirectTo, unauthenticated, rev 2
C1_Witness ==
  /\ rev = 2 /\ pc = "done" /\ GetUserReturned /\ user = NoUser
  /\ request.pathname = <<"/cari-jodoh", "/42">>
  /\ request.search = [redirectTo |-> <<"/dashboard">>]
  /\ response.kind = "redirect"

\* C2: in both revisions, a request to /login or /register by an authenticated
\* user whose profile row has registered_at set goes on to the profile query
\* and is answered with a redirect to /cari-jodoh.
C2_CompletedUserOnAuthPathRedirectsToBrowse ==
  /\ (GetUserReturned /\ user \in Users /\ request.pathname \in {LOGIN, REGISTER})
       => pc \in {"profile", "done"}
  /\ (pc = "done" /\ user \in Users /\ request.pathname \in {LOGIN, REGISTER}
        /\ OnboardingComplete)
       => (response.kind = "redirect" /\ response.url.pathname = BROWSE)

C2_Witness ==
  /\ rev = 1 /\ pc = "done" /\ user \in Users /\ request.pathname = REGISTER
  /\ OnboardingComplete /\ response.kind = "redirect"

\* C3: a request on /api/ that the rate limiter did not allow is answered at
\* once with status 429, a Retry-After header and a JSON body with exactly the
\* fields error and retryAfter; nothing else is done for it (no auth call).
C3_ThrottledApiRequestGets429 ==
  (pc # "idle" /\ OnApiPath /\ ~rateLimit.allowed)
    => /\ pc = "done"
       /\ response.kind = "body"
       /\ response.status = 429
       /\ "Retry-After" \in DOMAIN response.headers
       /\ DOMAIN response.body = {"error", "retryAfter"}
       /\ getUserResult = NotCalled

\* the 101st request of a window, with time left in the window
C3_Witness ==
  /\ pc = "done" /\ OnApiPath /\ ~rateLimit.allowed /\ rateLimit.remaining = 0
  /\ response.status = 429 /\ response.headers["Retry-After"] = 60

\* C4: in both revisions, the response returned for a protected path is the
\* pass-through response exactly when the user is authenticated and the profile
\* row exists with registered_at set; otherwise it is a redirect.
C4_ProtectedPassThroughOnlyWhenOnboarded ==
  (pc = "done" /\ OnProtectedPath)
    => /\ response.kind \in {"next", "redirect"}
       /\ (response.kind = "next") <=> (user \in Users /\ OnboardingComplete)

C4_Witness ==
  /\ rev = 2 /\ pc = "done" /\ OnProtectedPath /\ user \in Users /\ OnboardingComplete
  /\ response.kind = "next"

\* C5: a request whose pathname is exactly /auth/callback is answered, as soon
\* as auth verification returns, with the pass-through response, never with a
\* redirect, whoever the user is; no profile is looked up for it.
C5_AuthCallbackNeverRedirected ==
  (request.pathname = AUTH_CALLBACK)
    => /\ pc # "profile"
       /\ GetUserReturned => pc = "done"
       /\ pc = "done" => (response.kind = "next" /\ response = supabaseResponse)

C5_Witness ==
  /\ pc = "done" /\ request.pathname = AUTH_CALLBACK /\ user \in Users
  /\ response.kind = "next"

\* C6: every response the middleware returns carries an X-Request-ID header
\* holding the identifier generated for the request.
C6_EveryResponseCarriesRequestId ==
  (pc = "done")
    => /\ "X-Request-ID" \in DOMAIN response.headers
       /\ response.headers["X-Request-ID"] = requestId

\* C7: when the auth client wrote cookies through setAll during getUser, the
\* response returned carries each of them with the value setAll was given.
C7_ResponseCarriesRefreshedCookies ==
  (pc = "done" /\ cookiesToSetSeen # << >> /\ response.kind \in {"next", "redirect"})
    => \A i \in 1..Len(cookiesToSetSeen) :
         /\ cookiesToSetSeen[i].name \in DOMAIN response.cookies
         /\ response.cookies[cookiesToSetSeen[i].name].value = cookiesToSetSeen[i].value

\* C8: getCurrentUser and getCurrentProfile return null whenever their remote
\* call returned an error or threw; no exception reaches the caller.
C8_HelpersReturnNullOnRemoteFailure ==
  /\ hresult.ended # "threw"
  /\ (hpc = "profile") => (~authOutcome.threw /\ ~authOutcome.error)
  /\ (hpc = "done" /\ (authOutcome.threw \/ authOutcome.error \/
                       queryOutcome.threw \/ queryOutcome.error))
       => hresult = Returned(Null)

\* getCurrentProfile whose user was found and whose profile query threw
C8_Witness ==
  /\ hpc = "done" /\ hfn = "getCurrentProfile" /\ huser # Null /\ queryOutcome.threw
  /\ hresult = Returned(Null)

\* C9: a failed auth verification (error result or thrown exception) is
\* handled as an unauthenticated request: the middleware returns the login
\* redirect for a protected path and the pass-through response otherwise.
C9_AuthFailureHandledAsUnauthenticated ==
  (getUserResult.called /\ (getUserResult.error \/ getUserResult.threw))
    => /\ pc = "done"
       /\ IF OnProtectedPath
          THEN response.kind = "redirect" /\ response.url.pathname = LOGIN
          ELSE response.kind = "next"

\* C10: the helper's setAll never throws; when the cookie store rejects the
\* write, setAll returns and the auth call it was made from goes on, so that a
\* user the remote call found is still returned.
C10_HelperSetAllSwallowsWriteFailure ==
  /\ setAllResult # "threw"
  /\ (setAllResult = "swallowed" /\ hpc \in {"profile", "done"}
        /\ ~authOutcome.threw /\ ~authOutcome.error /\ authOutcome.data # Null)
       => IF hfn = "getCurrentUser" THEN hresult = Returned(authOutcome.data)
          ELSE huser = authOutcome.data

C10_Witness ==
  /\ setAllResult = "swallowed" /\ hfn = "getCurrentUser" /\ hpc = "done"
  /\ hresult = Returned(UserValue("user-1")) /\ cookieStore = Empty

\* C11: createAdminClient throws, and builds no client, whenever the provider
\* URL or the service-role key is missing from the environment; it returns a
\* client (carrying both) only when both are there.
C11_AdminClientNeedsUrlAndKey ==
  (hfn = "createAdminClient" /\ hpc = "done")
    => /\ (supabaseUrl = Unset \/ serviceRoleKey = Unset)
            => (adminResult.ended = "threw" /\ adminResult.value = Null)
       /\ (adminResult.ended = "returned")
            => /\ supabaseUrl # Unset /\ serviceRoleKey # Unset
               /\ adminResult.value.type = "client"
               /\ adminResult.value.url = supabaseUrl
               /\ adminResult.value.key = serviceRoleKey
       /\ adminResult.ended \in {"threw", "returned"}

\* the URL is missing while the key is set
C11_Witness ==
  /\ hfn = "createAdminClient" /\ hpc = "done"
  /\ supabaseUrl = Unset /\ serviceRoleKey = "service-role-key"
  /\ adminResult.ended = "threw"

\* the auth list as the properties name it
ClaimAuthPrefixes == { <<"/login">>, <<"/register">> }

\* C12 (as stated): a path is classified protected exactly when it starts
\* with a listed protected prefix, an auth route exactly when it starts with
\* /login or /register, and an onboarding route exactly when it starts with
\* /onboarding.
C12_ClassifiedByPrefix ==
  paths.computed
    => /\ paths.isProtectedPath = OnProtectedPath
       /\ paths.isAuthPath
            = (\E prefix \in ClaimAuthPrefixes : StartsWith(request.pathname, prefix))
       /\ paths.isOnboardingPath = StartsWith(request.pathname, <<"/onboarding">>)

\* C12 (amended): protected and onboarding routes are classified by prefix;
\* a path is an auth route exactly when it equals /login or /register.
C12_AuthPathsMatchedExactly ==
  paths.computed
    => /\ paths.isProtectedPath = OnProtectedPath
       /\ paths.isAuthPath = (request.pathname \in ClaimAuthPrefixes)
       /\ paths.isOnboardingPath = StartsWith(request.pathname, <<"/onboarding">>)

\* a path below /login is classified, and is not an auth route
C12_Witness ==
  /\ paths.computed
  /\ request.pathname = <<"/login", "/reset">>
  /\ ~paths.isAuthPath

\* C13: in both revisions, an authenticated user whose onboarding is not
\* complete (no profile row, or a row whose registered_at is null) and who
\* requests a protected path, /login or /register is answered with a redirect
\* to /onboarding/verifikasi.
C13_IncompleteOnboardingRedirectsToVerifikasi ==
  (/\ GetUserReturned /\ user \in Users
   /\ (OnProtectedPath \/ request.pathname \in ClaimAuthPrefixes))
    => /\ pc \in {"profile", "done"}
       /\ (pc = "done" /\ ~OnboardingComplete)
            => /\ profileCalls = 1
               /\ response.kind = "redirect"
               /\ response.url.pathname = <<"/onboarding", "/verifikasi">>

\* a user with a profile row and no registered_at asked for a protected path
C13_Witness ==
  /\ pc = "done" /\ user \in Users /\ OnProtectedPath
  /\ profile.data.row /\ profile.data.registered_at = "null"
  /\ response.kind = "redirect"
  /\ response.url.pathname = <<"/onboarding", "/verifikasi">>

\* C14: in both revisions, every response returned for an /api/ request the
\* limiter allowed carries X-RateLimit-Limit = 100 and X-RateLimit-Remaining
\* and X-RateLimit-Reset equal to the values the limiter reported.
C14_AllowedApiResponseCarriesRateLimitHeaders ==
  (pc = "done" /\ OnApiPath /\ rateLimit.allowed)
    => /\ {"X-RateLimit-Limit", "X-RateLimit-Remaining", "X-RateLimit-Reset"}
            \subseteq DOMAIN response.headers
       /\ response.headers["X-RateLimit-Limit"] = 100
       /\ response.headers["X-RateLimit-Remaining"] = rateLimit.remaining
       /\ response.headers["X-RateLimit-Reset"] = rateLimit.resetTime

\* C15: in both revisions, every pass-through response for a path outside
\* /api/ carries the CSRF token cookie generated for that request, and no
\* response for an /api/ request carries a CSRF token cookie.
C15_CsrfCookieOnNonApiPassThroughOnly ==
  (pc = "done")
    => /\ (~OnApiPath /\ response.kind = "next")
            => /\ CSRF_COOKIE \in DOMAIN response.cookies
               /\ response.cookies[CSRF_COOKIE].value = csrfToken
       /\ OnApiPath => CSRF_COOKIE \notin DOMAIN response.cookies

\* C16: the middleware never retries: for one request it issues at most one
\* auth verification call and at most one profile query, and the profile
\* query only after the auth call has returned a user.
C16_AtMostOneAuthCallAndOneProfileQuery ==
  /\ authCalls <= 1
  /\ profileCalls <= 1
  /\ (pc = "profile" \/ profileCalls = 1)
       => (authCalls = 1 /\ GetUserReturned /\ user \in Users)

\* a request answered after one auth call and one profile query
C16_Witness ==
  pc = "done" /\ authCalls = 1 /\ profileCalls = 1 /\ user \in Users

\* attribute k of a cookie's options is present and equals v
OptionIs(options, k, v) == k \in DOMAIN options /\ options[k] = v

\* attribute k is what the provider supplied in c: absent, or the same value
OptionAsSupplied(options, c, k) ==
  IF k \in DOMAIN c.options THEN OptionIs(options, k, c.options[k])
  ELSE k \notin DOMAIN options

\* the names of the sb- cookies set on a response
SbCookiesOn(resp) == { n \in DOMAIN resp.cookies : StartsWith(n, <<"sb-">>) }

\* the production flag of the request being answered
ProductionFlag == isProduction(rev, request, nodeEnv)

\* C17 (as stated): in both revisions, every sb- cookie the middleware sets
\* on a response has sameSite = lax, path = /, httpOnly = true, a positive
\* maxAge and secure equal to the production flag.
C17_SbCookiesCarryFixedAttributes ==
  \A resp \in {supabaseResponse, response} : \A n \in SbCookiesOn(resp) :
    LET o == resp.cookies[n].options
    IN /\ OptionIs(o, "sameSite", "lax")
       /\ OptionIs(o, "path", "/")
       /\ OptionIs(o, "secure", ProductionFlag)
       /\ OptionIs(o, "httpOnly", TRUE)
       /\ "maxAge" \in DOMAIN o /\ o.maxAge > 0

\* C17 (amended): in both revisions every sb- cookie set on a response has
\* sameSite = lax, path = / and secure equal to the production flag; in
\* revision 1 it also has httpOnly = true and a positive maxAge, 7 days when
\* the provider gave none or 0; in revision 2 httpOnly and maxAge are as the
\* provider supplied them.
C17_SbCookieAttributesPerRevision ==
  \A resp \in {supabaseResponse, response} : \A n \in SbCookiesOn(resp) :
    LET o == resp.cookies[n].options
        supplied == { i \in 1..Len(cookiesToSetSeen) : cookiesToSetSeen[i].name = n }
    IN /\ OptionIs(o, "sameSite", "lax")
       /\ OptionIs(o, "path", "/")
       /\ OptionIs(o, "secure", ProductionFlag)
       /\ rev = 1
            => /\ OptionIs(o, "httpOnly", TRUE)
               /\ "maxAge" \in DOMAIN o /\ o.maxAge > 0
               /\ \A i \in supplied :
                    ("maxAge" \notin DOMAIN cookiesToSetSeen[i].options
                       \/ cookiesToSetSeen[i].options.maxAge = 0)
                      => o.maxAge = 7 * 24 * 60 * 60
       /\ rev = 2
            => \A i \in supplied :
                 /\ OptionAsSupplied(o, cookiesToSetSeen[i], "httpOnly")
                 /\ OptionAsSupplied(o, cookiesToSetSeen[i], "maxAge")

\* revision 1 answered with a cookie the provider gave no options for
C17_Witness ==
  /\ rev = 1 /\ pc = "done" /\ response.kind = "next"
  /\ cookiesToSetSeen = << [name |-> SB_TOKEN, value |-> "jwt-new", options |-> Empty] >>
  /\ SB_TOKEN \notin DOMAIN request.cookies
  /\ OptionIs(response.cookies[SB_TOKEN].options, "maxAge", 7 * 24 * 60 * 60)

\* the production flag of the helper revision in use
HelperProductionFlag == helperIsProduction(hrev, nodeEnv, vercelEnv)

\* C18 (as stated): in every revision of the helper, setAll writes each
\* cookie with the options the provider supplied, changing only secure (set
\* to the production flag): maxAge, httpOnly, sameSite and path are as supplied.
C18_HelperSetAllChangesOnlySecure ==
  (setAllResult = "returned")
    => \A i \in 1..Len(hcookiesToSet) :
         LET c == hcookiesToSet[i]
         IN /\ c.name \in DOMAIN cookieStore
            /\ cookieStore[c.name].value = c.value
            /\ OptionIs(cookieStore[c.name].options, "secure", HelperProductionFlag)
            /\ \A k \in {"maxAge", "httpOnly", "sameSite", "path"} :
                 OptionAsSupplied(cookieStore[c.name].options, c, k)

\* C18 (amended): setAll writes each cookie with the options the provider
\* supplied and secure set to the production flag; maxAge and httpOnly are as
\* supplied in every revision; sameSite and path are as supplied in the first
\* two revisions and set to lax and / in the third.
C18_HelperSetAllKeepsMaxAgeAndHttpOnly ==
  (setAllResult = "returned")
    => \A i \in 1..Len(hcookiesToSet) :
         LET c == hcookiesToSet[i]
         IN /\ c.name \in DOMAIN cookieStore
            /\ cookieStore[c.name].value = c.value
            /\ OptionIs(cookieStore[c.name].options, "secure", HelperProductionFlag)
            /\ \A k \in {"maxAge", "httpOnly"} :
                 OptionAsSupplied(cookieStore[c.name].options, c, k)
            /\ IF hrev = 2
               THEN /\ OptionIs(cookieStore[c.name].options, "sameSite", "lax")
                    /\ OptionIs(cookieStore[c.name].options, "path", "/")
               ELSE \A k \in {"sameSite", "path"} :
                      OptionAsSupplied(cookieStore[c.name].options, c, k)

\* the third revision wrote a cookie the provider gave no options for
C18_Witness ==
  /\ hrev = 2 /\ setAllResult = "returned"
  /\ hcookiesToSet = << [name |-> SB_TOKEN, value |-> "jwt-new", options |-> Empty] >>
  /\ OptionIs(cookieStore[SB_TOKEN].options, "sameSite", "lax")

\* C19: a throttled /api/ request is rejected before any session work: once
\* the limiter has refused it, the request is answered 429 with no auth
\* verification call, no profile query and no cookie written.
C19_ThrottledRequestDoesNoSessionWork ==
  (pc # "idle" /\ OnApiPath /\ ~rateLimit.allowed)
    => /\ pc = "done"
       /\ response.status = 429
       /\ authCalls = 0 /\ ~getUserResult.called
       /\ profileCalls = 0
       /\ cookiesToSetSeen = << >>
       /\ response.cookies = Empty
       /\ supabaseResponse.cookies = Empty

\* a throttled request that carried a session cookie
C19_Witness ==
  /\ pc = "done" /\ response.status = 429 /\ ~rateLimit.allowed
  /\ SB_TOKEN \in DOMAIN request.cookies
  /\ authCalls = 0

\* C20: the middleware produces no redirect loop: with the session and the
\* profile unchanged, the target of every redirect it issues (/login,
\* /onboarding/verifikasi or /cari-jodoh) is answered with the pass-through
\* response, so that every redirect chain ends after one hop, in both revisions.
C20_RedirectChainsEndAfterOneHop ==
  /\ chain.hops <= 1
  /\ (chain.hops = 1)
       => /\ request.pathname
               \in { <<"/login">>, <<"/onboarding", "/verifikasi">>, <<"/cari-jodoh">> }
          /\ pc \in {"getUser", "profile", "done"}
          /\ (pc = "done") => (response.kind = "next" /\ response = supabaseResponse)

\* revision 2 sent a completed user from an onboarding page to /cari-jodoh,
\* and answered the request for /cari-jodoh with the pass-through
C20_Witness ==
  /\ rev = 2 /\ chain.hops = 1 /\ pc = "done"
  /\ request.pathname = BROWSE /\ user \in Users /\ OnboardingComplete
  /\ response.kind = "next"

\* C21: the middleware holds onboarding complete exactly when the profile
\* query returned a row whose registered_at is not null; a missing row or a
\* failed query (data null) counts as incomplete, never as complete.
C21_OnboardingCompleteNeedsRegisteredRow ==
  /\ (profileCalls = 1) => onboarding.computed
  /\ onboarding.computed
       => /\ onboarding.hasCompletedOnboarding
               = (profile.data.row /\ profile.data.registered_at # "null")
          /\ (profile.error \/ ~profile.data.row) => ~onboarding.hasCompletedOnboarding

\* the profile query failed and onboarding was held incomplete
C21_Witness ==
  /\ pc = "done" /\ onboarding.computed /\ profile.error
  /\ ~onboarding.hasCompletedOnboarding
  /\ response.kind = "redirect" /\ response.url.pathname = ONBOARDING_VERIFIKASI

\* a routing decision: pass-through, 429, or redirect and the path it names
DecisionOf(resp) ==
  [kind |-> IF resp.status = 429 THEN "429" ELSE resp.kind,
   pathname |-> IF resp.kind = "redirect" THEN resp.url.pathname ELSE << >>]

\* the decision revision rv takes for a request, a limiter verdict, the user
\* getUser returned and the result of the profile query
RoutingDecision(rv, req, rl, usr, prof) ==
  IF IsApiPath(req.pathname) /\ NotAllowed(rl) THEN [kind |-> "429", pathname |-> << >>]
  ELSE LET first == RouteAfterGetUser(req, usr, NextResponseNext)
       IN IF first.next = "done" THEN DecisionOf(first.response)
          ELSE DecisionOf(RouteAfterProfile(rv, req, prof, NextResponseNext))

OtherRev == 3 - rev

\* an authenticated user whose onboarding is complete asks for an /onboarding path
CompletedUserOnOnboardingPath ==
  /\ user \in Users /\ OnboardingComplete
  /\ StartsWith(request.pathname, <<"/onboarding">>)

\* C22 (as stated): the two revisions take the same routing decision
\* (pass-through, 429, or redirect to the same path) for every request path,
\* limiter verdict, authentication state and onboarding state.
C22_RevisionsRouteAlike ==
  (pc = "done")
    => DecisionOf(response) = RoutingDecision(OtherRev, request, rateLimit, user, profile)

\* C22 (amended): the two revisions take the same routing decision in every
\* case but one: a completed user on an /onboarding path is passed through
\* by revision 1 and redirected to /cari-jodoh by revision 2.
C22_RevisionsRouteAlikeButOnboarding ==
  (pc = "done")
    => IF CompletedUserOnOnboardingPath
       THEN /\ rev = 1 => DecisionOf(response) = [kind |-> "next", pathname |-> << >>]
            /\ rev = 2 => DecisionOf(response) = [kind |-> "redirect", pathname |-> <<"/cari-jodoh">>]
       ELSE DecisionOf(response)
              = RoutingDecision(OtherRev, request, rateLimit, user, profile)

\* revision 2 redirected a completed user away from /onboarding
C22_Witness ==
  /\ rev = 2 /\ pc = "done" /\ CompletedUserOnOnboardingPath
  /\ request.pathname = <<"/onboarding">>
  /\ response.kind = "redirect" /\ response.url.pathname = BROWSE

\* a saveVerification call is awaited; its answers hold a negative one
SaveInFlight == form = "fiveq" /\ inFlight.action = "saveVerification"
HasNegative(answers) == \E q \in {"q1", "q2", "q3", "q4", "q5"} : ~answers[q]

\* C23: in FiveQForm, answers with a negative one are saved only by the
\* modal's continue button, and then with committed = true; answers all
\* positive are saved by the submit itself, without the committed flag and
\* without the modal; while the modal waits nothing is being saved; and
\* cancelling it saves nothing, clears the pending answers and goes to /.
C23_NegativeAnswersSavedOnlyAfterConfirmation ==
  /\ (SaveInFlight /\ HasNegative(inFlight.payload))
       => /\ inFlight.handler = "handleModalContinue"
          /\ "committed" \in DOMAIN inFlight.payload /\ inFlight.payload.committed
          /\ inFlight.payload = Spread(pendingData, [committed |-> TRUE])
  /\ (SaveInFlight /\ ~HasNegative(inFlight.payload))
       => /\ inFlight.handler = "onSubmit"
          /\ "committed" \notin DOMAIN inFlight.payload
          /\ ~showModal /\ negativeCount = 0
  /\ (form = "fiveq" /\ showModal)
       => (inFlight = NoCall /\ pendingData # Null /\ HasNegative(pendingData))
  /\ (form = "fiveq" /\ href = <<"/">>)
       => (inFlight = NoCall /\ lastResult = NoResult /\ pendingData = Null /\ ~showModal)

\* answers with a negative one being saved after the confirmation
C23_Witness ==
  /\ SaveInFlight /\ inFlight.handler = "handleModalContinue"
  /\ ~inFlight.payload.q3 /\ inFlight.payload.committed

\* the server action of the latest handler run failed or threw
LastActionFailed ==
  \/ lastResult.kind = "threw"
  \/ lastResult.kind = "returned" /\ ~lastResult.success

\* C24: in login, register, FiveQForm and CvOnboardingForm, the page is left
\* for the next step only after the server action returned success; after a
\* failed result or an exception no navigation is started, and login and
\* register show a non-empty error message.
C24_NextStepOnlyAfterSuccess ==
  /\ (href # NoNav /\ ~(form = "fiveq" /\ href = <<"/">>))
       => (lastResult.kind = "returned" /\ lastResult.success)
  /\ LastActionFailed
       => /\ href = NoNav
          /\ form \in {"login", "register"} => error # ""

\* signIn threw without a message: the login form stays, showing its default error
C24_Witness ==
  /\ form = "login" /\ lastResult.kind = "threw" /\ lastResult.error = ""
  /\ href = NoNav /\ error = "Terjadi kesalahan. Silakan coba lagi."

\* C25: no form stays disabled: whenever no server action is awaited and no
\* navigation has been started, isLoading is false.
C25_NoFormStuckDisabled ==
  (inFlight = NoCall /\ href = NoNav) => ~isLoading

\* the save behind the modal's continue button failed and the form is usable again
C25_Witness ==
  /\ form = "fiveq" /\ LastActionFailed /\ pendingData # Null
  /\ inFlight = NoCall /\ href = NoNav /\ ~isLoading

\* C26: when the login page was opened by the middleware's redirect of an
\* unauthenticated request for protected path P and signIn succeeds, the
\* login form navigates to P.
C26_LoginReturnsToRequestedPath ==
  (/\ form = "login" /\ "redirectTo" \in DOMAIN location.search
   /\ lastResult = Succeeded /\ href # NoNav)
    => href = location.search.redirectTo

====
